---- MODULE Spec2Model ----
(***************************************************************************)
(* Model of esp-rf-ook (src/src/main.rs): the edge-timed polling loop of   *)
(* main, its four-state framing automaton, and the Nexus-TH field decoder  *)
(* decode / decode_range.                                                  *)
(*                                                                         *)
(* Two specifications share the variables:                                 *)
(*   Spec        the polling loop fed by a pin and a hardware counter;     *)
(*   DecodeSpec  the pure function decode applied to bounded inputs.       *)
(***************************************************************************)
EXTENDS Integers, Sequences, FiniteSets, TLC

(***************************************************************************)
(* Timing windows and payload length (main.rs 18-29).                      *)
(***************************************************************************)
PREAMBLE_MIN == 2000
PREAMBLE_MAX == 8000
SIGNAL_END_MIN == 3000
SIGNAL_END_MAX == 8000
PULSE_MIN == 300
PULSE_MAX == 600
PAYLOAD_LEN == 36
MIN_HIGH == 1650
MAX_HIGH == 2150
MIN_LOW == 800
MAX_LOW == 1100

(***************************************************************************)
(* Bounds of the model.                                                    *)
(***************************************************************************)
\* number of durations a transmitted payload may carry beyond PAYLOAD_LEN
MaxExtra == 1
\* number of distinct readings of the wall clock
MaxClock == 2

\* the absence of a result, of a call, of a record
None == [kind |-> "None"]

(***************************************************************************)
(* Integer conversions of the target: Rust's `/` truncates toward zero,    *)
(* `as u8` keeps the low eight bits.                                       *)
(***************************************************************************)
Abs(n) == IF n < 0 THEN -n ELSE n

TruncDiv(a, b) == IF a >= 0 THEN a \div b ELSE -((-a) \div b)

AsU8(n) == n % 256

(***************************************************************************)
(* Display of an integer, as format! writes it: a '-' for a negative       *)
(* value, then the decimal digits without leading zeros.                   *)
(***************************************************************************)
DigitChar(d) == <<"0", "1", "2", "3", "4", "5", "6", "7", "8", "9">>[d + 1]

RECURSIVE DigitsOf(_)
DigitsOf(n) ==
    IF n < 10 THEN <<DigitChar(n)>>
    ELSE DigitsOf(n \div 10) \o <<DigitChar(n % 10)>>

FormatInt(n) == IF n < 0 THEN <<"-">> \o DigitsOf(-n) ELSE DigitsOf(n)

(***************************************************************************)
(* fn in_range (main.rs 72-74).                                            *)
(***************************************************************************)
\* variant: the upper end of the window excluded
in_range_open(count, min, max) == count >= min /\ count < max

in_range(count, min, max) == count >= min /\ count <= max

(***************************************************************************)
(* enum DecodeError (main.rs 56-60).                                       *)
(***************************************************************************)
WrongPayloadLen(len) == [kind |-> "WrongPayloadLen", len |-> len]

SampleOutOfRange(sample) == [kind |-> "SampleOutOfRange", sample |-> sample]

WrongChannel(ch) == [kind |-> "WrongChannel", channel |-> ch]

(***************************************************************************)
(* fn decode_range (main.rs 230-245): scans samples[start..start+size]     *)
(* (0-based, Rust) most significant bit first.  decode_from is the loop    *)
(* body from 0-based index i on with the accumulated value.  decode asks   *)
(* for at most 12 bits, so the u32 `value <<= 1` never drops a bit.        *)
(***************************************************************************)
RECURSIVE decode_from(_, _, _, _)
decode_from(samples, i, end, value) ==
    IF i >= end THEN [ok |-> TRUE, value |-> value]
    ELSE LET sample == samples[i + 1] IN
         IF in_range(sample, MIN_HIGH, MAX_HIGH)
           THEN decode_from(samples, i + 1, end, value * 2 + 1)
         ELSE IF in_range(sample, MIN_LOW, MAX_LOW)
           THEN decode_from(samples, i + 1, end, value * 2)
         ELSE [ok |-> FALSE, err |-> SampleOutOfRange(sample)]

decode_range(samples, start, size) == decode_from(samples, start, start + size, 0)

(***************************************************************************)
(* Field interpretation inside decode (main.rs 253-265).                   *)
(***************************************************************************)
\* lines 253-257: sign correction of the raw 12-bit temperature
temp_10x(raw) == IF raw > 2048 THEN -(4096 - raw) ELSE raw

\* line 258
temp_int(t10) == TruncDiv(t10, 10)

\* Rust's `%`: the remainder has the sign of the dividend
Rem(a, b) == IF a >= 0 THEN a % b ELSE -((-a) % b)

\* variant: the digit taken without the absolute value
temp_decimal_signed(t10) == Rem(t10, 10)

\* line 259
temp_decimal(t10) == Rem(Abs(t10), 10)

\* variant: no clamp
humidity_raw(raw) == raw

\* lines 261-265
humidity_of(raw) == IF raw > 100 THEN 100 ELSE raw

\* variant: the raw channel reported as it is
channel_raw(raw) == AsU8(raw)

\* line 267
channel_of(raw) == AsU8(raw + 1)

\* variant: only a short payload refused
too_short(samples) == Len(samples) < PAYLOAD_LEN

\* line 249
wrong_len(samples) == Len(samples) # PAYLOAD_LEN

(***************************************************************************)
(* The record of line 287.  Every `{}` of the format string is the Display *)
(* of the value; the timestamp is the clock reading.                       *)
(***************************************************************************)
Record(formatted, id, channel, battery_ok, t_int, t_dec, humidity) ==
    [time          |-> formatted,
     model         |-> "Nexus-TH",
     id            |-> FormatInt(id),
     channel       |-> FormatInt(channel),
     battery_ok    |-> FormatInt(battery_ok),
     temperature_C |-> FormatInt(t_int) \o <<".">> \o FormatInt(t_dec),
     humidity      |-> FormatInt(humidity)]

(***************************************************************************)
(* fn decode (main.rs 247-288).  `now` is SystemTime::now() of line 271.   *)
(* The `?` of each decode_range returns its error at once, in the order    *)
(* the code scans the fields: temperature, humidity, battery, channel, id. *)
(***************************************************************************)
decode(samples, channel_to_use, now) ==
    IF wrong_len(samples) THEN WrongPayloadLen(Len(samples))
    ELSE
    LET t == decode_range(samples, 12, 12) IN
    IF ~t.ok THEN t.err ELSE
    LET t10 == temp_10x(t.value)
        h == decode_range(samples, 28, 8) IN
    IF ~h.ok THEN h.err ELSE
    LET humidity == humidity_of(h.value)
        b == decode_range(samples, 8, 1) IN
    IF ~b.ok THEN b.err ELSE
    LET battery_ok == AsU8(b.value)
        c == decode_range(samples, 10, 2) IN
    IF ~c.ok THEN c.err ELSE
    LET channel == channel_of(c.value)
        i == decode_range(samples, 0, 8) IN
    IF ~i.ok THEN i.err ELSE
    LET id == AsU8(i.value)
    IN  IF channel # channel_to_use THEN WrongChannel(channel)
        ELSE [kind |-> "Ok",
              text |-> Record(now, id, channel, battery_ok,
                              temp_int(t10), temp_decimal(t10), humidity)]

(***************************************************************************)
(* State.  The locals of main's loop (main.rs 143-147), the two inputs it  *)
(* polls, the configured channel, what the last iteration did, and the     *)
(* harness of DecodeSpec.                                                  *)
(***************************************************************************)
VARIABLES
    state,          \* WaitingFor (line 147)
    samples,        \* the candidate payload (line 146)
    pin_old_level,  \* line 145
    count,          \* line 143: the counter value read at the last edge
    timer,          \* the hardware counter (timer00)
    pin,            \* the level of gpio21
    channel,        \* app_config.channel
    pc,             \* "loop", or "panicked" once an unwrap() has failed
    decoded,        \* the decode call of the last iteration: None or [arg, result]
    published,      \* the record client.publish took in the last iteration
    wf,             \* observer: progress of the edges along a well-formed frame
    wfGaps,         \* observer: the gaps of that frame, in arrival order
    clean,          \* observer: no duration so far lay in the sync or preamble window
    before,         \* observer: state, payload length and previous level at the last edge
    idle,           \* observer: the step just taken was an iteration that saw no edge
    fr,             \* observer: progress of the edges along a frame of any length
    frN,            \* observer: the number of (pulse, gap) pairs of that frame
    dCase,          \* DecodeSpec: the fields and timings that were encoded
    dSamples,       \* DecodeSpec: the payload handed to decode
    dCh,            \* DecodeSpec: the configured channel handed to decode
    dOut,           \* DecodeSpec: the result of the last call
    dPrev           \* DecodeSpec: the result of the call before

loopVars == <<state, samples, pin_old_level, count, timer, pin, channel, pc,
              decoded, published, wf, wfGaps, clean, before, idle, fr, frN>>

decVars == <<dCase, dSamples, dCh, dOut, dPrev>>

vars == <<loopVars, decVars>>

(***************************************************************************)
(* The transmitter: a Nexus-TH frame is 36 gaps, most significant bit      *)
(* first: id(8) battery(1) bit9(1) channel(2) temperature(12) bits24-27(4) *)
(* humidity(8).  A case names the field values, the gap sent for a 0 and   *)
(* for a 1, the positions (0-based) whose gap is replaced, and the number  *)
(* of gaps sent.                                                           *)
(***************************************************************************)
Pow2(n) == CASE n = 0 -> 1 [] n = 1 -> 2 [] n = 2 -> 4 [] n = 3 -> 8
             [] n = 4 -> 16 [] n = 5 -> 32 [] n = 6 -> 64 [] n = 7 -> 128
             [] n = 8 -> 256 [] n = 9 -> 512 [] n = 10 -> 1024 [] n = 11 -> 2048

Bits(n, w) == [k \in 1..w |-> (n \div Pow2(w - k)) % 2]

FrameBits(c) ==
    Bits(c.id, 8) \o Bits(c.batt, 1) \o Bits(c.bit9, 1) \o Bits(c.ch, 2)
      \o Bits(c.temp, 12) \o Bits(c.fill, 4) \o Bits(c.hum, 8)

Payload(c) ==
    LET bits == FrameBits(c)
        gap(k) == IF k > PAYLOAD_LEN THEN c.zero
                  ELSE IF (k - 1) \in DOMAIN c.bad THEN c.bad[k - 1]
                  ELSE IF bits[k] = 1 THEN c.one ELSE c.zero
    IN  [k \in 1..c.len |-> gap(k)]

NoBad == [p \in {} |-> 0]

BaseCase ==
    [id |-> 5, batt |-> 1, bit9 |-> 0, ch |-> 0, temp |-> 215, fill |-> 15,
     hum |-> 47, zero |-> MIN_LOW, one |-> MIN_HIGH, bad |-> NoBad,
     len |-> PAYLOAD_LEN]

\* the two extreme timings of a 0 and a 1
Slow(c) == [c EXCEPT !.zero = MAX_LOW, !.one = MAX_HIGH]

\* durations outside both bit windows
BadDurations == {0, MIN_LOW - 1, MAX_LOW + 1, 1300, MIN_HIGH - 1, MAX_HIGH + 1, 5000}

Positions == 0..(PAYLOAD_LEN - 1)

TempCases == {[BaseCase EXCEPT !.temp = t] : t \in 0..4095}

HumCases ==
    LET fast == {[BaseCase EXCEPT !.hum = h] : h \in 0..255}
    IN  fast \cup {Slow(c) : c \in fast}

FieldCases ==
    LET fast == {[BaseCase EXCEPT !.id = i, !.batt = b, !.bit9 = r, !.ch = c,
                                  !.temp = t, !.fill = f, !.hum = h] :
                   i \in {0, 255}, b \in {0, 1}, r \in {0, 1}, c \in 0..3,
                   t \in {0, 2048, 2049, 4076}, f \in {0, 15}, h \in {100, 101}}
    IN  fast \cup {Slow(c) : c \in fast}

OneBadCases ==
    {[BaseCase EXCEPT !.bad = (p :> d)] : p \in Positions, d \in BadDurations}

TwoBadCases ==
    {[BaseCase EXCEPT !.bad = (p :> 1300) @@ (q :> 5000)] :
        p \in {0, 8, 9, 11, 23, 35}, q \in {3, 10, 12, 24, 28}}

LenCases ==
    {[c EXCEPT !.len = n] :
        c \in {BaseCase, Slow(BaseCase), [BaseCase EXCEPT !.bad = (3 :> 1300)],
               [BaseCase EXCEPT !.bad = (0 :> 5000) @@ (20 :> 0)]},
        n \in (0..(PAYLOAD_LEN + MaxExtra)) \ {PAYLOAD_LEN}}

\* values of the u8 configuration item `channel`
Channels == {0, 1, 2, 3, 4, 5, 255}

Times == 1..MaxClock

(***************************************************************************)
(* Initial state of the loop (main.rs 140-147).  The pin idles at the      *)
(* level the loop assumes.                                                 *)
(***************************************************************************)
LoopInit ==
    /\ state = "PulseIdle"
    /\ samples = <<>>
    /\ pin_old_level = "High"
    /\ count = 0
    /\ timer = 0
    /\ pin = "High"
    /\ pc = "loop"
    /\ decoded = None
    /\ published = None
    /\ wf = 0
    /\ wfGaps = <<>>
    /\ clean = TRUE
    /\ before = None
    /\ idle = FALSE
    /\ fr = 0
    /\ frN = 0

(***************************************************************************)
(* DecodeSpec: decode applied to a bounded set of payloads.                *)
(***************************************************************************)
DecodeInit ==
    /\ LoopInit
    /\ channel = 1
    /\ \/ dCase \in TempCases /\ dCh = 1
       \/ dCase \in HumCases \cup FieldCases \cup OneBadCases
                      \cup TwoBadCases \cup LenCases
          /\ dCh \in Channels
    /\ dSamples = Payload(dCase)
    /\ dOut = None
    /\ dPrev = None

\* one call of decode at clock reading t; the earlier result is kept
DecodeCall(t) ==
    /\ dPrev = None
    /\ dOut' = decode(dSamples, dCh, t)
    /\ dPrev' = dOut
    /\ UNCHANGED <<dCase, dSamples, dCh, loopVars>>

DecodeNext == \E t \in Times : DecodeCall(t)

DecodeSpec == DecodeInit /\ [][DecodeNext]_vars

(***************************************************************************)
(* The signal of Spec.  Durations holds the two ends of every window and   *)
(* their neighbours outside it.  A gap that the Data state would accept as *)
(* a bit is sent only as the next gap of one of the transmitter's frames   *)
(* (any frame may be cut short or interrupted at any point); every other   *)
(* duration may arrive at any time.                                        *)
(***************************************************************************)
Durations ==
    {PULSE_MIN - 1, PULSE_MIN, PULSE_MAX, PULSE_MAX + 1,
     MIN_LOW - 1, MIN_LOW, MAX_LOW, MAX_LOW + 1,
     MIN_HIGH - 1, MIN_HIGH, MAX_HIGH, MAX_HIGH + 1,
     PREAMBLE_MIN - 1, PREAMBLE_MIN, SIGNAL_END_MIN - 1, SIGNAL_END_MIN,
     SIGNAL_END_MAX, SIGNAL_END_MAX + 1}

LoopCases ==
    LET good == {BaseCase, Slow(BaseCase),
                 [BaseCase EXCEPT !.ch = 1, !.temp = 4076, !.hum = 200],
                 [BaseCase EXCEPT !.ch = 3, !.temp = 4091, !.batt = 0]}
        bad == {[BaseCase EXCEPT !.bad = (p :> d)] :
                   p \in {0, 9, 12, 24, 35}, d \in {MAX_LOW + 1, MIN_HIGH - 1}}
    IN  {[c EXCEPT !.len = PAYLOAD_LEN + MaxExtra] : c \in good \cup bad}

Frames == {Payload(c) : c \in LoopCases}

IsPrefix(s, f) == Len(s) <= Len(f) /\ \A k \in 1..Len(s) : s[k] = f[k]

Sendable(d) ==
    (state = "Data" /\ d >= 800 /\ d <= 2150)
        => \E f \in Frames : IsPrefix(Append(samples, d), f)

Other(level) == IF level = "High" THEN "Low" ELSE "High"

(***************************************************************************)
(* Observers of the edge stream (they read the measured duration and the   *)
(* state before the transition, never the transition's result).            *)
(*   wf = 1  a sync pulse was seen from (PulseIdle, empty payload, High)   *)
(*   wf = 2  ... then the preamble gap, then k >= 0 (pulse, bit gap) pairs *)
(*   wf = 3  ... then one more pulse                                       *)
(*   wf = 4  ... 36 pairs, a pulse and an end-of-frame gap: a whole frame  *)
(* fr and frN follow the same shape for any number of pairs whose gaps lie *)
(* in [800,2150]; fr = 4 after the end-of-frame gap of a frame of frN >= 1 *)
(* pairs.                                                                  *)
(***************************************************************************)
WfNext(d) ==
    IF wf = 1 /\ d >= 2000 /\ d <= 8000 THEN 2
    ELSE IF wf = 2 /\ d >= 300 /\ d <= 600 THEN 3
    ELSE IF wf = 3 /\ Len(wfGaps) < 36
                   /\ ((d >= 800 /\ d <= 1100) \/ (d >= 1650 /\ d <= 2150)) THEN 2
    ELSE IF wf = 3 /\ Len(wfGaps) = 36 /\ d >= 3000 /\ d <= 8000 THEN 4
    ELSE IF state = "PulseIdle" /\ samples = <<>> /\ pin_old_level = "High"
            /\ d >= 300 /\ d <= 600 THEN 1
    ELSE 0

WfGapsNext(d) ==
    IF WfNext(d) = 2 /\ wf = 3 THEN Append(wfGaps, d)
    ELSE IF WfNext(d) \in {0, 1} THEN <<>>
    ELSE wfGaps

FrNext(d) ==
    IF fr = 1 /\ d >= 2000 /\ d <= 8000 THEN 2
    ELSE IF fr = 2 /\ d >= 300 /\ d <= 600 THEN 3
    ELSE IF fr = 3 /\ d >= 800 /\ d <= 2150 THEN 2
    ELSE IF fr = 3 /\ frN >= 1 /\ d >= 3000 /\ d <= 8000 THEN 4
    ELSE IF state = "PulseIdle" /\ pin_old_level = "High"
            /\ d >= 300 /\ d <= 600 THEN 1
    ELSE 0

FrNNext(d) ==
    IF FrNext(d) = 2 /\ fr = 3 THEN frN + 1
    ELSE IF FrNext(d) \in {0, 1} \/ fr = 1 THEN 0
    ELSE frN

Observe(d) ==
    /\ wf' = WfNext(d)
    /\ wfGaps' = WfGapsNext(d)
    /\ clean' = (clean /\ ~(d >= 300 /\ d <= 600) /\ ~(d >= 2000 /\ d <= 8000))
    /\ before' = [kind |-> "Edge", state |-> state, len |-> Len(samples),
                  level |-> pin_old_level]
    /\ idle' = FALSE
    /\ fr' = FrNext(d)
    /\ frN' = FrNNext(d)

(***************************************************************************)
(* Spec: the polling loop (main.rs 148-219).                               *)
(***************************************************************************)
Init ==
    /\ LoopInit
    /\ channel \in {1, 2}
    /\ dCase = None /\ dSamples = <<>> /\ dCh = 0 /\ dOut = None /\ dPrev = None

\* the signal: d microseconds after the edge the loop saw last, the pin
\* changes level (the loop polls faster than the pin changes)
Toggle(d) ==
    /\ pc = "loop"
    /\ pin = pin_old_level
    /\ Sendable(d)
    /\ timer' = timer + d
    /\ pin' = Other(pin)
    /\ idle' = FALSE
    /\ UNCHANGED <<state, samples, pin_old_level, count, channel, pc, decoded,
                   published, wf, wfGaps, clean, before, fr, frN, decVars>>

\* lines 150-156: the level is the one seen before: `continue`
PollSame ==
    /\ pc = "loop"
    /\ pin = pin_old_level
    /\ idle' = TRUE
    /\ UNCHANGED <<state, samples, pin_old_level, count, timer, pin, channel, pc,
                   decoded, published, wf, wfGaps, clean, before, fr, frN, decVars>>

\* lines 151-159 and 218 of an iteration that sees an edge and completes
Edge ==
    /\ pc = "loop"
    /\ pin # pin_old_level
    /\ count' = timer
    /\ timer' = 0
    /\ Observe(timer)
    /\ UNCHANGED <<pin, channel, decVars>>

Completes ==
    /\ pin_old_level' = pin
    /\ pc' = pc

Quiet == decoded' = None /\ published' = None

\* variant: the duration of the High interval not checked
idle_next_unchecked(old_level, cnt) ==
    IF old_level = "High" THEN "Preamble" ELSE "PulseIdle"

\* variant: the previous level not tested
idle_next_any_level(old_level, cnt) ==
    IF in_range(cnt, PULSE_MIN, PULSE_MAX) THEN "Preamble" ELSE "PulseIdle"

\* lines 161-171
idle_next(old_level, cnt) ==
    IF old_level = "High"
      THEN IF in_range(cnt, PULSE_MIN, PULSE_MAX) THEN "Preamble" ELSE "PulseIdle"
      ELSE "PulseIdle"

EdgePulseIdle ==
    /\ Edge /\ state = "PulseIdle"
    /\ state' = idle_next(pin_old_level, timer)
    /\ UNCHANGED samples
    /\ Quiet /\ Completes

\* variant: the gap after the sync pulse not checked
preamble_unchecked(cnt) == "Pulse"

\* lines 172-178
preamble_next(cnt) ==
    IF in_range(cnt, PREAMBLE_MIN, PREAMBLE_MAX) THEN "Pulse" ELSE "PulseIdle"

EdgePreamble ==
    /\ Edge /\ state = "Preamble"
    /\ state' = preamble_next(timer)
    /\ UNCHANGED samples
    /\ Quiet /\ Completes

\* lines 179-186: the next state of the Pulse arm
pulse_next(cnt) ==
    IF in_range(cnt, PULSE_MIN, PULSE_MAX) THEN "Data" ELSE "PulseIdle"

\* variant: the payload kept when the pulse is missed
pulse_samples_kept(v, cnt) == v

\* lines 179-186: the payload after the Pulse arm (line 183 clears it)
pulse_samples(v, cnt) ==
    IF in_range(cnt, PULSE_MIN, PULSE_MAX) THEN v ELSE <<>>

EdgePulse ==
    /\ Edge /\ state = "Pulse"
    /\ state' = pulse_next(timer)
    /\ samples' = pulse_samples(samples, timer)
    /\ Quiet /\ Completes

\* variant: the check of line 190 left out
never_empty(v) == FALSE

\* Vec::is_empty (line 190)
is_empty(v) == v = <<>>

\* variant: whatever decode returned is sent
publish_any(r) == IF r.kind = "Ok" THEN r.text ELSE r

\* lines 191-205: what the match hands to client.publish
publish_of(r) == IF r.kind = "Ok" THEN r.text ELSE None

\* variant: no lower end
accept_bit_no_min(cnt) == cnt <= MAX_HIGH

\* line 209
accept_bit(cnt) == in_range(cnt, MIN_LOW, MAX_HIGH)

\* lines 188-190, 208: end of frame with nothing collected
EdgeDataEndEmpty ==
    /\ Edge /\ state = "Data"
    /\ in_range(timer, SIGNAL_END_MIN, SIGNAL_END_MAX)
    /\ is_empty(samples)
    /\ state' = "PulseIdle"
    /\ UNCHANGED samples
    /\ Quiet /\ Completes

Call(arg, result) == [kind |-> "Call", arg |-> arg, result |-> result]

\* lines 188-191, 202-208: decode fails, the failure is logged
EdgeDataEndFailed ==
    /\ Edge /\ state = "Data"
    /\ in_range(timer, SIGNAL_END_MIN, SIGNAL_END_MAX)
    /\ ~is_empty(samples)
    /\ \E now \in Times :
         LET r == decode(samples, channel, now) IN
         /\ r.kind # "Ok"
         /\ decoded' = Call(samples, r)
         /\ published' = publish_of(r)
    /\ samples' = <<>>
    /\ state' = "PulseIdle"
    /\ Completes

\* lines 188-201, 206-208: decode succeeds and publish returns Ok
EdgeDataEndPublished ==
    /\ Edge /\ state = "Data"
    /\ in_range(timer, SIGNAL_END_MIN, SIGNAL_END_MAX)
    /\ ~is_empty(samples)
    /\ \E now \in Times :
         LET r == decode(samples, channel, now) IN
         /\ r.kind = "Ok"
         /\ decoded' = Call(samples, r)
         /\ published' = publish_of(r)
    /\ samples' = <<>>
    /\ state' = "PulseIdle"
    /\ Completes

\* lines 188-200: decode succeeds, publish returns Err and unwrap() panics;
\* nothing after line 200 runs
EdgeDataEndPanic ==
    /\ Edge /\ state = "Data"
    /\ in_range(timer, SIGNAL_END_MIN, SIGNAL_END_MAX)
    /\ ~is_empty(samples)
    /\ \E now \in Times :
         LET r == decode(samples, channel, now) IN
         /\ r.kind = "Ok"
         /\ decoded' = Call(samples, r)
    /\ published' = None
    /\ pc' = "panicked"
    /\ UNCHANGED <<state, samples, pin_old_level>>

\* variant: the new duration put in front
push_front(v, x) == <<x>> \o v

\* Vec::push
push(v, x) == Append(v, x)

\* lines 209-211
EdgeDataBit ==
    /\ Edge /\ state = "Data"
    /\ ~in_range(timer, SIGNAL_END_MIN, SIGNAL_END_MAX)
    /\ accept_bit(timer)
    /\ samples' = push(samples, timer)
    /\ state' = "Pulse"
    /\ Quiet /\ Completes

\* lines 212-215
EdgeDataReset ==
    /\ Edge /\ state = "Data"
    /\ ~in_range(timer, SIGNAL_END_MIN, SIGNAL_END_MAX)
    /\ ~accept_bit(timer)
    /\ samples' = <<>>
    /\ state' = "PulseIdle"
    /\ Quiet /\ Completes

Next ==
    \/ \E d \in Durations : Toggle(d)
    \/ PollSame
    \/ EdgePulseIdle
    \/ EdgePreamble
    \/ EdgePulse
    \/ EdgeDataEndEmpty
    \/ EdgeDataEndFailed
    \/ EdgeDataEndPublished
    \/ EdgeDataEndPanic
    \/ EdgeDataBit
    \/ EdgeDataReset

Spec == Init /\ [][Next]_vars

(***************************************************************************)
(* Reading a record back, as its consumer would.                           *)
(***************************************************************************)
IsDigit(c) == \E d \in 0..9 : DigitChar(d) = c

DigitVal(c) == CHOOSE d \in 0..9 : DigitChar(d) = c

IsNumeral(s) == Len(s) >= 1 /\ \A k \in 1..Len(s) : IsDigit(s[k])

RECURSIVE ParseNat(_)
ParseNat(s) ==
    IF Len(s) = 0 THEN 0
    ELSE ParseNat(SubSeq(s, 1, Len(s) - 1)) * 10 + DigitVal(s[Len(s)])

\* text of the shape [-]digits.digit
IsNegative(text) == Len(text) >= 1 /\ text[1] = "-"

IntDigits(text) ==
    SubSeq(text, IF IsNegative(text) THEN 2 ELSE 1, Len(text) - 2)

WellFormedTemp(text) ==
    /\ Len(text) >= 3
    /\ text[Len(text) - 1] = "."
    /\ IsDigit(text[Len(text)])
    /\ IsNumeral(IntDigits(text))

\* the integer part and the digit after the point
IntPart(text) ==
    IF IsNegative(text) THEN -ParseNat(IntDigits(text)) ELSE ParseNat(IntDigits(text))

FracDigit(text) == DigitVal(text[Len(text)])

\* the text read as a signed decimal number, times ten
TenthsOf(text) ==
    LET mag == ParseNat(IntDigits(text)) * 10 + FracDigit(text)
    IN  IF IsNegative(text) THEN -mag ELSE mag

\* the signed tenths a raw 12-bit value stands for, and its encoding
SignedOf(raw) == IF raw <= 2048 THEN raw ELSE raw - 4096

EncodeTemp(v) == IF v >= 0 THEN v ELSE 4096 + v

Trunc10(v) == IF v < 0 THEN -((-v) \div 10) ELSE v \div 10

InBitWindow(d) == (d >= 800 /\ d <= 1100) \/ (d >= 1650 /\ d <= 2150)

OutOfWindow(s) == {k \in 1..Len(s) : ~InBitWindow(s[k])}

ValidPayload(s) == Len(s) = 36 /\ OutOfWindow(s) = {}

Called == dOut # None

(***************************************************************************)
(* C1 (as stated): after the edges of a whole well-formed frame, fed from  *)
(* PulseIdle with an empty payload and previous level High, decode has     *)
(* been called exactly once, in the last iteration, with the 36 gaps in    *)
(* arrival order, and the automaton is in PulseIdle with an empty payload. *)
(***************************************************************************)
C1_WellFormedFrame ==
    /\ wf \in 1..3 => decoded = None
    /\ wf = 4 => /\ decoded.kind = "Call"
                 /\ decoded.arg = wfGaps /\ Len(decoded.arg) = 36
                 /\ state = "PulseIdle"
                 /\ samples = <<>>

\* what the code does: the same, unless the frame decodes to a reading of
\* the configured channel and publish fails
C1_UnlessPublishFails ==
    /\ wf \in 1..3 => decoded = None
    /\ wf = 4 => /\ decoded.kind = "Call"
                 /\ decoded.arg = wfGaps /\ Len(decoded.arg) = 36
                 /\ pc = "loop" => state = "PulseIdle" /\ samples = <<>>
                 /\ pc = "panicked" => decoded.result.kind = "Ok"

C1_Delivered ==
    wf = 4 /\ pc = "loop" /\ published # None /\ decoded.arg = wfGaps

(***************************************************************************)
(* C5 (as stated): after a decode attempt, whatever its outcome, the       *)
(* automaton is in PulseIdle with an empty payload and the loop is still   *)
(* running.                                                                *)
(***************************************************************************)
C5_AlwaysResumes ==
    decoded # None
        => state = "PulseIdle" /\ samples = <<>> /\ pc = "loop"

\* what the code does: a decode failure resets the automaton and the loop
\* goes on; the loop stops only on a reading whose publish fails
C5_FailureResumes ==
    /\ (decoded # None /\ decoded.result.kind # "Ok")
          => state = "PulseIdle" /\ samples = <<>> /\ pc = "loop"
    /\ (decoded # None /\ pc = "loop") => state = "PulseIdle" /\ samples = <<>>
    /\ pc = "panicked" => decoded # None /\ decoded.result.kind = "Ok"

(***************************************************************************)
(* C6: as long as no measured duration lay in the sync-pulse window        *)
(* [300,600] or the preamble window [2000,8000], the automaton is in       *)
(* PulseIdle after every event, the payload is empty and decode was not    *)
(* called.                                                                 *)
(***************************************************************************)
C6_NoiseStaysIdle ==
    clean => /\ state = "PulseIdle"
             /\ samples = <<>>
             /\ decoded = None /\ published = None
             /\ pc = "loop"

\* a second noise event: a Low interval measured on a rising edge
C6_Witness ==
    /\ clean /\ state = "PulseIdle"
    /\ count = 1650 /\ pin_old_level = "High" /\ pin = "High" /\ timer = 0

(***************************************************************************)
(* C2: for every payload whose length is not 36, decode returns            *)
(* WrongPayloadLen carrying the actual length, whatever the durations and  *)
(* whatever the configured channel.                                        *)
(***************************************************************************)
C2_WrongLen ==
    (Called /\ Len(dSamples) # 36)
        => dOut = [kind |-> "WrongPayloadLen", len |-> Len(dSamples)]

C2_Witness ==
    /\ dOut = [kind |-> "WrongPayloadLen", len |-> 35]
    /\ OutOfWindow(dSamples) # {}
    /\ dCh = 4

C2_WitnessLong == dOut = [kind |-> "WrongPayloadLen", len |-> 37]

(***************************************************************************)
(* C3 (as stated): a 36-duration payload holding a duration outside both   *)
(* bit windows, at any position 0..35, makes decode return                 *)
(* SampleOutOfRange carrying such a duration of the payload.               *)
(***************************************************************************)
C3_AnyPosition ==
    (Called /\ Len(dSamples) = 36 /\ OutOfWindow(dSamples) # {})
        => /\ dOut.kind = "SampleOutOfRange"
           /\ \E k \in OutOfWindow(dSamples) : dOut.sample = dSamples[k]

\* the positions decode scans, in the order it scans them (1-based)
ScanOrder ==
    [k \in 1..31 |-> IF k <= 12 THEN 12 + k
                     ELSE IF k <= 20 THEN 16 + k
                     ELSE IF k = 21 THEN 9
                     ELSE IF k <= 23 THEN k - 11
                     ELSE k - 23]

\* what the code does: the first out-of-window duration in scan order is
\* carried; positions 9 and 24..27 (0-based) are never looked at
C3_ScannedPositions ==
    (Called /\ Len(dSamples) = 36)
        => LET hits == {k \in 1..31 : ScanOrder[k] \in OutOfWindow(dSamples)}
           IN  IF hits = {} THEN dOut.kind \in {"Ok", "WrongChannel"}
               ELSE LET first == CHOOSE k \in hits : \A j \in hits : k <= j
                    IN  dOut = [kind |-> "SampleOutOfRange",
                                sample |-> dSamples[ScanOrder[first]]]

(***************************************************************************)
(* C4: a 36-duration payload whose durations all lie in a bit window gives *)
(* a reading or WrongChannel, never a length or range error, and a second  *)
(* call on the same payload and channel gives the same outcome and the     *)
(* same fields (only the timestamp may differ).                            *)
(***************************************************************************)
SameFields(a, b) ==
    /\ a.kind = b.kind
    /\ a.kind = "WrongChannel" => a = b
    /\ a.kind = "Ok" => [a.text EXCEPT !.time = 0] = [b.text EXCEPT !.time = 0]

C4_TotalDeterministic ==
    (Called /\ ValidPayload(dSamples))
        => /\ dOut.kind \in {"Ok", "WrongChannel"}
           /\ dPrev # None => SameFields(dPrev, dOut)

C4_Witness ==
    /\ dPrev.kind = "Ok" /\ dOut.kind = "Ok"
    /\ dPrev.text.time # dOut.text.time
    /\ dCase.one = 2150

C4_WitnessOther == dPrev.kind = "WrongChannel" /\ dOut.kind = "WrongChannel"

(***************************************************************************)
(* C7: for every signed tenths value v in -2047..2048, encoded as raw = v  *)
(* (v >= 0) or 4096 + v (v < 0), the record's temperature has integer part *)
(* v / 10 truncated toward zero and digit |v| mod 10.                      *)
(***************************************************************************)
C7_TempRoundTrip ==
    dOut.kind = "Ok"
        => LET v == SignedOf(dCase.temp)
               text == dOut.text.temperature_C
           IN  /\ v \in -2047..2048 /\ EncodeTemp(v) = dCase.temp
               /\ WellFormedTemp(text)
               /\ IntPart(text) = Trunc10(v)
               /\ FracDigit(text) = (IF v < 0 THEN -v ELSE v) % 10
               /\ IsNegative(text) => v < 0

C7_Witness ==
    /\ dOut.kind = "Ok"
    /\ dCase.temp = 4076
    /\ dOut.text.temperature_C = <<"-", "2", ".", "0">>

C7_WitnessEdge ==
    /\ dOut.kind = "Ok"
    /\ dCase.temp = 2049
    /\ dOut.text.temperature_C = <<"-", "2", "0", "4", ".", "7">>

(***************************************************************************)
(* C8 (as stated): the temperature_C text, read as a signed decimal number *)
(* and multiplied by 10, equals the corrected tenths value of the raw      *)
(* temperature.                                                            *)
(***************************************************************************)
C8_SignedText ==
    dOut.kind = "Ok"
        => /\ WellFormedTemp(dOut.text.temperature_C)
           /\ TenthsOf(dOut.text.temperature_C) = SignedOf(dCase.temp)

\* what the code does: the sign is written only when the integer part is
\* not zero
C8_SignLostBelowOne ==
    dOut.kind = "Ok"
        => LET v == SignedOf(dCase.temp)
               t == TenthsOf(dOut.text.temperature_C)
           IN  IF v \in -9..-1 THEN t = -v ELSE t = v

(***************************************************************************)
(* C9: the decoded channel is the raw 2-bit channel plus 1; when it        *)
(* differs from the configured channel decode returns WrongChannel         *)
(* carrying it, and when it is the configured channel decode returns a     *)
(* reading of that channel.                                                *)
(***************************************************************************)
C9_Channel ==
    (Called /\ ValidPayload(dSamples))
        => LET ch == dCase.ch + 1
           IN  IF ch # dCh THEN dOut = [kind |-> "WrongChannel", channel |-> ch]
               ELSE dOut.kind = "Ok" /\ dOut.text.channel = <<DigitChar(ch)>>

C9_Witness ==
    /\ dOut = [kind |-> "WrongChannel", channel |-> 1]
    /\ dCase.ch = 0 /\ dCh = 2

C9_WitnessFour ==
    dOut.kind = "Ok" /\ dCase.ch = 3 /\ dCh = 4 /\ dOut.text.channel = <<"4">>

(***************************************************************************)
(* C10: the reported humidity is 100 when the raw 8-bit humidity exceeds   *)
(* 100 and the raw value otherwise; it is always in 0..100.                *)
(***************************************************************************)
C10_Humidity ==
    dOut.kind = "Ok"
        => LET h == dCase.hum
               text == dOut.text.humidity
           IN  /\ IsNumeral(text)
               /\ ParseNat(text) = (IF h > 100 THEN 100 ELSE h)
               /\ ParseNat(text) \in 0..100

C10_Witness ==
    /\ dOut.kind = "Ok" /\ dCase.hum = 255
    /\ dOut.text.humidity = <<"1", "0", "0">>

C10_WitnessBelow ==
    /\ dOut.kind = "Ok" /\ dCase.hum = 99
    /\ dOut.text.humidity = <<"9", "9">>

(***************************************************************************)
(* What the last iteration that saw an edge started from.                  *)
(***************************************************************************)
EdgeSeen == before # None

OutOfAllWindows(d) == d < 300 \/ (d >= 601 /\ d <= 799) \/ d > 8000

(***************************************************************************)
(* C11: a record reaches the publisher only in an iteration in which       *)
(* decode returned a reading, and it is that reading's whole record;       *)
(* nothing is published after a decode error, after an end-of-frame gap    *)
(* with an empty payload, or on any other transition.                      *)
(***************************************************************************)
C11_PublishOnlyReadings ==
    /\ published # None
          => /\ decoded # None
             /\ decoded.result.kind = "Ok"
             /\ published = decoded.result.text
             /\ DOMAIN published = {"time", "model", "id", "channel", "battery_ok",
                                    "temperature_C", "humidity"}
    /\ (decoded # None /\ decoded.result.kind # "Ok") => published = None
    /\ decoded = None => published = None

C11_Witness ==
    /\ published # None
    /\ decoded.result.kind = "Ok"
    /\ published.id = <<"5">> /\ published.humidity = <<"4", "7">>

C11_WitnessError ==
    decoded # None /\ decoded.result.kind = "WrongChannel" /\ published = None

(***************************************************************************)
(* C12: in Data with an empty payload, a duration in the end-of-frame      *)
(* window [3000,8000] returns the automaton to PulseIdle without a decode  *)
(* call, a publish or a decode error.                                      *)
(***************************************************************************)
C12_EmptyFrameSilent ==
    (EdgeSeen /\ before.state = "Data" /\ before.len = 0
              /\ count >= 3000 /\ count <= 8000)
        => /\ state = "PulseIdle"
           /\ samples = <<>>
           /\ decoded = None /\ published = None
           /\ pc = "loop"

C12_Witness ==
    /\ EdgeSeen /\ before.state = "Data" /\ before.len = 0
    /\ count = 3000
    /\ state = "PulseIdle" /\ decoded = None

(***************************************************************************)
(* C13: in Data, a duration in [800,2150] becomes the last element of the  *)
(* payload (the earlier elements keep their order, the length grows by     *)
(* one), the state becomes Pulse and nothing is decoded or published.      *)
(***************************************************************************)
C13_AppendLast ==
    [][(pc = "loop" /\ pin # pin_old_level /\ state = "Data"
                    /\ timer >= 800 /\ timer <= 2150)
          => /\ Len(samples') = Len(samples) + 1
             /\ SubSeq(samples', 1, Len(samples)) = samples
             /\ samples'[Len(samples')] = timer
             /\ state' = "Pulse"
             /\ decoded' = None /\ published' = None]_vars

C13_Witness ==
    /\ EdgeSeen /\ before.state = "Data" /\ before.len = 5
    /\ state = "Pulse"
    /\ Len(samples) = 6 /\ samples[6] = count /\ samples[6] # samples[5]

(***************************************************************************)
(* C14: from every state of the automaton, one edge whose duration lies in *)
(* none of the timing windows leaves it in PulseIdle with an empty payload *)
(* and triggers no decode.                                                 *)
(***************************************************************************)
C14_Resync ==
    (EdgeSeen /\ OutOfAllWindows(count))
        => /\ state = "PulseIdle"
           /\ samples = <<>>
           /\ decoded = None /\ published = None
           /\ pc = "loop"

C14_Witness ==
    /\ EdgeSeen /\ before.state = "Data" /\ before.len >= 1
    /\ count = 8001
    /\ state = "PulseIdle" /\ samples = <<>>

C14_WitnessPulse ==
    /\ EdgeSeen /\ before.state = "Pulse" /\ before.len >= 1
    /\ count = 299 /\ state = "PulseIdle"

C14_WitnessPreamble ==
    EdgeSeen /\ before.state = "Preamble" /\ count = 799 /\ state = "PulseIdle"

C14_WitnessIdle ==
    EdgeSeen /\ before.state = "PulseIdle" /\ count = 601 /\ state = "PulseIdle"

(***************************************************************************)
(* C15 (as stated): an iteration that finds the level unchanged writes     *)
(* nothing; an iteration that finds it changed reads the counter, resets   *)
(* it, makes one transition of the automaton and sets the previous level   *)
(* to the new level, so the levels of consecutive events alternate.        *)
(***************************************************************************)
Successors(st) ==
    CASE st = "PulseIdle" -> {"PulseIdle", "Preamble"}
      [] st = "Preamble"  -> {"Pulse", "PulseIdle"}
      [] st = "Pulse"     -> {"Data", "PulseIdle"}
      [] st = "Data"      -> {"PulseIdle", "Pulse"}

NothingWritten == UNCHANGED <<state, samples, pin_old_level, count, timer>>

EdgeHandled ==
    /\ count' = timer
    /\ timer' = 0
    /\ state' \in Successors(state)
    /\ pin_old_level' = pin
    /\ pin_old_level' # pin_old_level

C15_EdgeTimedSampling ==
    [][/\ idle' => NothingWritten
       /\ (pc = "loop" /\ pin # pin_old_level) => EdgeHandled]_vars

\* what the code does: the same, except in the iteration whose publish fails
C15_UnlessPublishFails ==
    [][/\ idle' => NothingWritten
       /\ (pc = "loop" /\ pin # pin_old_level /\ pc' = "loop") => EdgeHandled
       /\ (pc = "loop" /\ pc' = "panicked")
             => count' = timer /\ timer' = 0 /\ pin_old_level' = pin_old_level]_vars

(***************************************************************************)
(* C16: the payload is empty whenever the state is PulseIdle or Preamble.  *)
(***************************************************************************)
C16_EmptyOutsideFrame ==
    state \in {"PulseIdle", "Preamble"} => samples = <<>>

\* a frame abandoned after 36 gaps left nothing behind
C16_Witness ==
    /\ EdgeSeen /\ before.state = "Pulse" /\ before.len = 36
    /\ state = "PulseIdle" /\ samples = <<>>

(***************************************************************************)
(* C17: every decode call comes at the end of the edge sequence            *)
(* [High interval in [300,600] seen in PulseIdle; gap in [2000,8000];      *)
(* n >= 1 pairs (pulse in [300,600], gap in [800,2150]); pulse in          *)
(* [300,600]; gap in [3000,8000]], during which the automaton never is in  *)
(* PulseIdle, and the payload passed has length n.                         *)
(***************************************************************************)
C17_DecodeAfterFrame ==
    /\ decoded # None => fr = 4 /\ frN >= 1 /\ Len(decoded.arg) = frN
    /\ fr \in 1..3 => state # "PulseIdle"

C17_Witness ==
    decoded # None /\ fr = 4 /\ frN = 3 /\ Len(decoded.arg) = 3

(***************************************************************************)
(* C18: every duration held in the payload lies in [800,2150], so a        *)
(* SampleOutOfRange error of a decode call made by the loop carries a      *)
(* value in 1101..1649.                                                    *)
(***************************************************************************)
C18_PayloadInAcceptRange ==
    /\ \A k \in 1..Len(samples) : samples[k] >= 800 /\ samples[k] <= 2150
    /\ (decoded # None /\ decoded.result.kind = "SampleOutOfRange")
          => decoded.result.sample >= 1101 /\ decoded.result.sample <= 1649

C18_Witness ==
    /\ decoded # None
    /\ decoded.result = [kind |-> "SampleOutOfRange", sample |-> 1101]

(***************************************************************************)
(* C19: with 36 or more durations collected, a further gap in [800,2150]   *)
(* is still appended; the over-long payload is refused only at the         *)
(* end-of-frame gap, as WrongPayloadLen carrying its length, and is not    *)
(* published.                                                              *)
(***************************************************************************)
C19_NoUpperBound ==
    /\ (EdgeSeen /\ before.state = "Data" /\ before.len >= 36
                 /\ count >= 800 /\ count <= 2150)
          => state = "Pulse" /\ Len(samples) = before.len + 1
    /\ (decoded # None /\ Len(decoded.arg) > 36)
          => /\ decoded.result = [kind |-> "WrongPayloadLen",
                                  len |-> Len(decoded.arg)]
             /\ published = None

C19_Witness ==
    /\ decoded # None /\ Len(decoded.arg) = 37
    /\ decoded.result = [kind |-> "WrongPayloadLen", len |-> 37]
    /\ published = None

C19_WitnessGrown ==
    EdgeSeen /\ before.state = "Data" /\ before.len = 36 /\ Len(samples) = 37

(***************************************************************************)
(* C20: the previous level is High whenever the state is Pulse and Low     *)
(* whenever it is Preamble or Data, so the Pulse arm always measures a     *)
(* High interval and the Preamble and Data arms a Low interval.            *)
(***************************************************************************)
C20_Polarity ==
    /\ state = "Pulse" => pin_old_level = "High"
    /\ state \in {"Preamble", "Data"} => pin_old_level = "Low"
    /\ (EdgeSeen /\ before.state = "Pulse") => before.level = "High"
    /\ (EdgeSeen /\ before.state \in {"Preamble", "Data"}) => before.level = "Low"

C20_Witness ==
    /\ state = "Data" /\ pin_old_level = "Low" /\ Len(samples) >= 1
    /\ EdgeSeen /\ before.state = "Pulse" /\ before.level = "High"

====
